---------------------------- MODULE Spec2Model ----------------------------
(***************************************************************************)
(* Model of day4-swantides/extract_tides.py: the column tokenizer          *)
(* (extract_from_column), the classifier (classify_tides), the validator   *)
(* (validate_data) and the pipeline driver (main).                         *)
(*                                                                         *)
(* Python strings are sequences of one-character strings, so that          *)
(* formatting, parsing and string comparison are computed, not assumed.    *)
(* Heights are kept in hundredths of a metre (the chart prints two         *)
(* decimals); vertical word positions are kept in half points.             *)
(***************************************************************************)
EXTENDS Integers, Sequences, FiniteSets, TLC

VARIABLES
    \* extract_from_column
    words,          \* the column's word list (sorted in place)
    month_idx,      \* the column's month, 0-based
    tokens_stream,  \* the resolved tokens
    i,              \* loop index into tokens_stream (0-based, as in the code)
    current_day,    \* None or the last day number seen
    entries,        \* the entries emitted so far
    pc,             \* position in the function / pipeline
    \* main
    loc,            \* index of the location being processed (1-based)
    raw_data,       \* result of extract_all
    clean_data,     \* deduplicated, then classified entries
    issues,         \* result of validate_data
    files,          \* output file -> the tides written to it
    failed          \* the locations reported as FAILED

vars == <<words, month_idx, tokens_stream, i, current_day, entries, pc,
          loc, raw_data, clean_data, issues, files, failed>>

colVars == <<words, month_idx, tokens_stream, i, current_day, entries>>
mainVars == <<loc, raw_data, clean_data, issues, files, failed>>

----------------------------------------------------------------------------
\* Bounds of the model

\* longest word list of a column (arbitrary columns)
MaxWords == 3
\* most (time, height) readings after the day number (single-day columns)
MaxPairs == 2
\* longest raw entry list handed to the deduplication, short lists
MaxRaw == 3
\* longest short raw entry list extract_all returns in the driver
MaxMainRaw == 2

----------------------------------------------------------------------------
\* Program constants

YEAR == 2026
\* current_day = None
None == -1
\* 0.0 <= height <= 2.5, in hundredths
MaxHeight == 250

\* len(unique_days) != 365
ExpectedDays == 365
\* elif curr > 0.8, in hundredths
Threshold == 80
\* c < 1 or c > 4
MinPerDay == 1
MaxPerDay == 4

LOCATIONS ==
    << [name |-> "Fremantle", pdf |-> "IDO59001_2026_WA_TP015.pdf",
        output |-> "tides_fremantle.json"],
       [name |-> "Barrack Street", pdf |-> "IDO59001_2026_WA_TP062.pdf",
        output |-> "tides_barrack.json"] >>

Outputs == {LOCATIONS[l].output : l \in 1..Len(LOCATIONS)}

----------------------------------------------------------------------------
\* Python string and number primitives

Digits == {"0", "1", "2", "3", "4", "5", "6", "7", "8", "9"}
Upper == {"A", "B", "C", "D", "E", "F", "G", "H", "I", "J", "K", "L", "M",
          "N", "O", "P", "Q", "R", "S", "T", "U", "V", "W", "X", "Y", "Z"}

DigitVal(c) ==
    CASE c = "0" -> 0 [] c = "1" -> 1 [] c = "2" -> 2 [] c = "3" -> 3
      [] c = "4" -> 4 [] c = "5" -> 5 [] c = "6" -> 6 [] c = "7" -> 7
      [] c = "8" -> 8 [] c = "9" -> 9

DigitChar(n) ==
    CASE n = 0 -> "0" [] n = 1 -> "1" [] n = 2 -> "2" [] n = 3 -> "3"
      [] n = 4 -> "4" [] n = 5 -> "5" [] n = 6 -> "6" [] n = 7 -> "7"
      [] n = 8 -> "8" [] n = 9 -> "9"

\* code point order of the characters that occur in dates and times
Ord(c) == CASE c = "-" -> 45 [] c = ":" -> 58 [] c = "_" -> 95
            [] c \in Digits -> 48 + DigitVal(c)
            [] OTHER -> 65

\* str.isdigit()
IsDigitStr(s) == Len(s) > 0 /\ \A k \in 1..Len(s) : s[k] \in Digits

RECURSIVE IntOf(_)
\* int(s) of a digit string
IntOf(s) == IF s = <<>> THEN 0
            ELSE 10 * IntOf(SubSeq(s, 1, Len(s) - 1)) + DigitVal(s[Len(s)])

RECURSIVE Pow10(_)
Pow10(n) == IF n = 0 THEN 1 ELSE 10 * Pow10(n - 1)

\* float(s): [ok |-> FALSE] for ValueError, else the value num / den.
\* Grammar: optional sign, digits with at most one point, at least one digit.
\* (Exponents, underscores, inf and nan need characters the chart's tokens,
\* digits, points and upper-case weekday codes, do not offer.)
FloatOf(s) ==
    LET signed == Len(s) > 0 /\ s[1] \in {"+", "-"}
        body == IF signed THEN SubSeq(s, 2, Len(s)) ELSE s
        dots == {k \in 1..Len(body) : body[k] = "."}
        wellFormed == /\ \A k \in 1..Len(body) : body[k] \in Digits \cup {"."}
                      /\ Cardinality(dots) <= 1
                      /\ \E k \in 1..Len(body) : body[k] \in Digits
    IN  IF ~wellFormed THEN [ok |-> FALSE, num |-> 0, den |-> 1]
        ELSE LET dot == IF dots = {} THEN Len(body) + 1
                        ELSE CHOOSE k \in dots : TRUE
                 whole == SubSeq(body, 1, dot - 1)
                 frac == SubSeq(body, dot + 1, Len(body))
                 mag == IntOf(whole) * Pow10(Len(frac)) + IntOf(frac)
             IN  [ok |-> TRUE,
                  num |-> IF signed /\ s[1] = "-" THEN 0 - mag ELSE mag,
                  den |-> Pow10(Len(frac))]

\* 0.0 <= height <= 2.5
InTideRange(f) == 0 <= f.num /\ f.num * 100 <= MaxHeight * f.den

\* the float as hundredths of a metre
Hundredths(f) == (f.num * 100) \div f.den

\* f"{n:02d}" and f"{n:04d}" as date.isoformat() uses them
Pad2(n) == <<DigitChar((n \div 10) % 10), DigitChar(n % 10)>>
Pad4(n) == <<DigitChar((n \div 1000) % 10), DigitChar((n \div 100) % 10)>>
           \o Pad2(n % 100)

IsLeap(y) == (y % 4 = 0 /\ y % 100 # 0) \/ y % 400 = 0

DaysIn(y, m) ==
    IF m = 2 THEN (IF IsLeap(y) THEN 29 ELSE 28)
    ELSE IF m \in {4, 6, 9, 11} THEN 30 ELSE 31

\* date(y, m, d) raises ValueError unless this holds
ValidDate(y, m, d) == m \in 1..12 /\ d >= 1 /\ d <= DaysIn(y, m)

\* date(y, m, d).isoformat()
IsoFormat(y, m, d) == Pad4(y) \o <<"-">> \o Pad2(m) \o <<"-">> \o Pad2(d)

\* f"{time_str[:2]}:{time_str[2:]}"
FormatTime(time_str) ==
    SubSeq(time_str, 1, 2) \o <<":">> \o SubSeq(time_str, 3, Len(time_str))

\* Python 3 round() of a position given in half points: ties go to even
RoundHalfEven(top2) ==
    LET f == top2 \div 2
    IN  IF top2 % 2 = 0 THEN f ELSE IF f % 2 = 0 THEN f ELSE f + 1

----------------------------------------------------------------------------
\* parse_merged_text and the token tests of extract_from_column

\* re.match(r'^([A-Z]{2,3})(\d{4})$', text)
IsMerged(text) ==
    /\ Len(text) \in {6, 7}
    /\ \A k \in 1..(Len(text) - 4) : text[k] \in Upper
    /\ \A k \in (Len(text) - 3)..Len(text) : text[k] \in Digits

parse_merged_text(text) ==
    IF IsMerged(text)
    THEN <<SubSeq(text, 1, Len(text) - 4), SubSeq(text, Len(text) - 3, Len(text))>>
    ELSE <<text>>

\* token.isdigit() and len(token) <= 2 and 1 <= int(token) <= 31
IsDayToken(token) ==
    IsDigitStr(token) /\ Len(token) <= 2 /\ 1 <= IntOf(token) /\ IntOf(token) <= 31

\* re.match(r'^\d{4}$', token)
IsTimeToken(token) == Len(token) = 4 /\ IsDigitStr(token)

\* the sort key (round(w['top']), w['x0'])
KeyLess(a, b) ==
    \/ RoundHalfEven(a.top) < RoundHalfEven(b.top)
    \/ RoundHalfEven(a.top) = RoundHalfEven(b.top) /\ a.x0 < b.x0

RECURSIVE InsertWord(_, _)
\* w goes after every word whose key is not greater (the sort is stable)
InsertWord(sorted, w) ==
    IF sorted = <<>> THEN <<w>>
    ELSE IF KeyLess(w, sorted[Len(sorted)])
         THEN Append(InsertWord(SubSeq(sorted, 1, Len(sorted) - 1), w),
                     sorted[Len(sorted)])
         ELSE Append(sorted, w)

RECURSIVE SortWords(_)
\* words.sort(key=lambda w: (round(w['top']), w['x0']))
SortWords(ws) ==
    IF ws = <<>> THEN <<>>
    ELSE InsertWord(SortWords(SubSeq(ws, 1, Len(ws) - 1)), ws[Len(ws)])

RECURSIVE Tokenize(_)
\* the tokens_stream loop: every word's tokens, each with the word's top
Tokenize(ws) ==
    IF ws = <<>> THEN <<>>
    ELSE LET w == ws[1]
             split_tokens == parse_merged_text(w.text)
         IN  [k \in 1..Len(split_tokens) |-> [text |-> split_tokens[k], top |-> w.top]]
             \o Tokenize(Tail(ws))

\* the token at Python index k
TokenAt(k) == tokens_stream[k + 1].text


----------------------------------------------------------------------------
\* extract_from_column(words, month_idx)

\* words.sort(...), entries = [], current_day = None, the tokens_stream loop, i = 0
SortAndTokenize ==
    /\ pc = "start"
    /\ words' = SortWords(words)
    /\ tokens_stream' = Tokenize(SortWords(words))
    /\ entries' = <<>>
    /\ current_day' = None
    /\ i' = 0
    /\ pc' = "loop"
    /\ UNCHANGED <<month_idx, mainVars>>

\* 1. Is it a Day Number?
DayToken ==
    /\ pc = "loop"
    /\ i < Len(tokens_stream)
    /\ IsDayToken(TokenAt(i))
    /\ current_day' = IntOf(TokenAt(i))
    /\ i' = i + 1
    /\ UNCHANGED <<words, month_idx, tokens_stream, entries, pc, mainVars>>

\* the look-ahead without the range test 0.0 <= height <= 2.5
HeightFollowsAnyFloat(k) ==
    /\ k + 1 < Len(tokens_stream)
    /\ FloatOf(TokenAt(k + 1)).ok

\* the look-ahead of step 2 succeeds: a next token exists, float() accepts it
\* and the value is in the valid tide range
HeightFollows(k) ==
    /\ k + 1 < Len(tokens_stream)
    /\ FloatOf(TokenAt(k + 1)).ok
    /\ InTideRange(FloatOf(TokenAt(k + 1)))

\* the dict appended at lines 136-140
NewEntry(day, time_str, height) ==
    [date |-> IsoFormat(YEAR, month_idx + 1, day),
     time |-> FormatTime(time_str),
     height |-> height]

\* step 2 with the day forgotten once a reading is consumed
TimeTokenResetsDay ==
    /\ pc = "loop"
    /\ i < Len(tokens_stream)
    /\ ~IsDayToken(TokenAt(i))
    /\ IsTimeToken(TokenAt(i))
    /\ HeightFollows(i)
    /\ entries' =
         IF current_day # None /\ ValidDate(YEAR, month_idx + 1, current_day)
         THEN Append(entries,
                     NewEntry(current_day, TokenAt(i),
                              Hundredths(FloatOf(TokenAt(i + 1)))))
         ELSE entries
    /\ i' = i + 2
    /\ current_day' = None
    /\ UNCHANGED <<words, month_idx, tokens_stream, pc, mainVars>>

\* 2. Is it a Time? (HHMM) followed by a height: both tokens are consumed,
\* and an entry is appended when a day is set and the date exists
TimeToken ==
    /\ pc = "loop"
    /\ i < Len(tokens_stream)
    /\ ~IsDayToken(TokenAt(i))
    /\ IsTimeToken(TokenAt(i))
    /\ HeightFollows(i)
    /\ entries' =
         IF current_day # None /\ ValidDate(YEAR, month_idx + 1, current_day)
         THEN Append(entries,
                     NewEntry(current_day, TokenAt(i),
                              Hundredths(FloatOf(TokenAt(i + 1)))))
         ELSE entries
    /\ i' = i + 2
    /\ UNCHANGED <<words, month_idx, tokens_stream, current_day, pc, mainVars>>

\* 3. Skip noise: anything else, a time without a height included
SkipNoise ==
    /\ pc = "loop"
    /\ i < Len(tokens_stream)
    /\ ~IsDayToken(TokenAt(i))
    /\ ~(IsTimeToken(TokenAt(i)) /\ HeightFollows(i))
    /\ i' = i + 1
    /\ UNCHANGED <<words, month_idx, tokens_stream, current_day, entries, pc, mainVars>>

\* the while condition fails: return entries
ReturnEntries ==
    /\ pc = "loop"
    /\ i >= Len(tokens_stream)
    /\ pc' = "done"
    /\ UNCHANGED <<colVars, mainVars>>

NextColumn == SortAndTokenize \/ DayToken \/ TimeToken \/ SkipNoise \/ ReturnEntries

----------------------------------------------------------------------------
\* Inputs of extract_from_column

\* a word list as pdfplumber hands it over: the texts in reading order are
\* placed on one printed line (tops 20.0 and 20.5, both rounding to 20, x0
\* growing to the right) and arrive in reading order or reversed
Place(reading) ==
    [k \in 1..Len(reading) |->
        [text |-> reading[k], top |-> 40 + (k % 2), x0 |-> 30 + 10 * k]]

Reverse(s) == [k \in 1..Len(s) |-> s[Len(s) + 1 - k]]

Arrivals == {"reading", "reversed"}

Arrive(reading, arrival) ==
    IF arrival = "reading" THEN Place(reading) ELSE Reverse(Place(reading))

MainIdle ==
    /\ loc = 0
    /\ raw_data = <<>>
    /\ clean_data = <<>>
    /\ issues = <<>>
    /\ files = [o \in Outputs |-> <<>>]
    /\ failed = {}

ColumnStart(reading, arrival, m) ==
    /\ words = Arrive(reading, arrival)
    /\ month_idx = m
    /\ tokens_stream = <<>>
    /\ i = 0
    /\ current_day = None
    /\ entries = <<>>
    /\ pc = "start"
    /\ MainIdle

\* the texts of arbitrary columns
WordPool ==
    { <<"5">>, <<"2">>, <<"3", "0">>,
      <<"0", "6", "1", "2">>, <<"0", "0", "0", "1">>, <<"9", "9", "9", "9">>,
      <<"1", ".", "6", "2">>, <<"2", ".", "6">>,
      <<"M", "O">>, <<"T", "U", "1", "4", "1", "3">> }

\* January and February (which has no 30th)
MonthPool == {0, 1}

SeqsUpTo(S, n) == UNION {[1..k -> S] : k \in 0..n}

InitColumn ==
    \E reading \in SeqsUpTo(WordPool, MaxWords), arrival \in Arrivals, m \in MonthPool :
        ColumnStart(reading, arrival, m)

\* extract_from_column on arbitrary columns
SpecColumn == InitColumn /\ [][NextColumn]_vars


----------------------------------------------------------------------------
\* Single-day columns: a day number, then readings

RunDays == { <<"5">>, <<"3", "0">> }
RunTimes == { <<"0", "6", "1", "2">>, <<"1", "2", "0", "5">> }
RunHeights == { <<"0", ".", "1", "5">>, <<"1", ".", "6", "2">> }

\* a reading: the time and the height, alone, after a weekday code, or with
\* the weekday code fused to the time as the chart's text often comes out
RunReadings ==
    { <<t, h>> : t \in RunTimes, h \in RunHeights }
    \cup { <<<<"M", "O">>, t, h>> : t \in RunTimes, h \in RunHeights }
    \cup { <<<<"T", "U">> \o t, h>> : t \in RunTimes, h \in RunHeights }

RECURSIVE Flatten(_)
Flatten(ss) == IF ss = <<>> THEN <<>> ELSE ss[1] \o Flatten(Tail(ss))

InitRun ==
    \E d \in RunDays, rs \in SeqsUpTo(RunReadings, MaxPairs),
       arrival \in Arrivals, m \in MonthPool :
        ColumnStart(<<d>> \o Flatten(rs), arrival, m)

\* extract_from_column on single-day columns
SpecRun == InitRun /\ [][NextColumn]_vars

----------------------------------------------------------------------------
\* Properties of extract_from_column

Texts(ts) == [k \in 1..Len(ts) |-> ts[k].text]

\* C1: an entry is appended only by a step that stands on a 4-digit token
\* whose successor exists and parses as a decimal in [0.0, 2.5], with a
\* current day already set; it is then exactly one entry, carrying that time.
C1_EntryOnlyFromTimeHeightDay ==
    [][entries' # entries =>
         /\ pc = "loop"
         /\ i + 1 < Len(tokens_stream)
         /\ IsTimeToken(TokenAt(i))
         /\ FloatOf(TokenAt(i + 1)).ok
         /\ InTideRange(FloatOf(TokenAt(i + 1)))
         /\ current_day # None
         /\ Len(entries') = Len(entries) + 1
         /\ SubSeq(entries', 1, Len(entries)) = entries
         /\ entries'[Len(entries')].time = FormatTime(TokenAt(i))]_vars

\* C1 witness: a finished column that emitted an entry although it also
\* holds a 4-digit token with no valid height after it
C1_Witness ==
    /\ pc = "done"
    /\ entries # <<>>
    /\ \E k \in 0..(Len(tokens_stream) - 1) :
          IsTimeToken(TokenAt(k)) /\ ~HeightFollows(k)

\* C8 as claimed: for two consecutive 4-digit tokens, no entry pairs the
\* first as time with the second as height.
C8_NoFourDigitHeight ==
    pc = "done" =>
        \A k \in 0..(Len(tokens_stream) - 2) :
            (IsTimeToken(TokenAt(k)) /\ IsTimeToken(TokenAt(k + 1))) =>
                \A n \in 1..Len(entries) :
                    ~(/\ entries[n].time = FormatTime(TokenAt(k))
                      /\ entries[n].height = IntOf(TokenAt(k + 1)) * 100)

\* the value of the last day token before Python index k, None if there is none
LastDayBefore(k) ==
    LET seen == {j \in 0..(k - 1) : IsDayToken(TokenAt(j))}
    IN  IF seen = {} THEN None
        ELSE IntOf(TokenAt(CHOOSE j \in seen : \A j2 \in seen : j2 <= j))

\* C9 as claimed: every day token, wherever it stands, sets the current day,
\* so the current day is always the value of the last day token passed.
C9_EveryDayTokenSetsDay ==
    pc \in {"loop", "done"} => current_day = LastDayBefore(i)

\* C10 as claimed: every emitted time is a 24-hour clock time HH:MM.
C10_TimesAreClockTimes ==
    \A n \in 1..Len(entries) :
        /\ Len(entries[n].time) = 5
        /\ entries[n].time[3] = ":"
        /\ IntOf(SubSeq(entries[n].time, 1, 2)) <= 23
        /\ IntOf(SubSeq(entries[n].time, 4, 5)) <= 59

RECURSIVE ReadingsFrom(_, _, _)
\* one entry per 4-digit token of ts from index k on, dated day d, with the
\* token after it as height
ReadingsFrom(ts, k, d) ==
    IF k >= Len(ts) THEN <<>>
    ELSE IF Len(ts[k]) = 4 /\ IsDigitStr(ts[k])
         THEN <<[date |-> Pad4(2026) \o <<"-">> \o Pad2(month_idx + 1)
                          \o <<"-">> \o Pad2(d),
                 time |-> <<ts[k][1], ts[k][2], ":", ts[k][3], ts[k][4]>>,
                 height |-> Hundredths(FloatOf(ts[k + 1]))]>>
              \o ReadingsFrom(ts, k + 2, d)
         ELSE ReadingsFrom(ts, k + 1, d)

ExampleTokens ==
    << <<"5">>, <<"M", "O">>, <<"0", "6", "1", "2">>, <<"0", ".", "1", "5">>,
       <<"1", "2", "0", "5">>, <<"1", ".", "6", "2">> >>

ExampleEntries ==
    << [date |-> <<"2", "0", "2", "6", "-", "0", "1", "-", "0", "5">>,
        time |-> <<"0", "6", ":", "1", "2">>, height |-> 15],
       [date |-> <<"2", "0", "2", "6", "-", "0", "1", "-", "0", "5">>,
        time |-> <<"1", "2", ":", "0", "5">>, height |-> 162] >>

\* C6 as claimed: a day number followed by readings yields one entry per
\* reading, in stream order, all dated that day of the column's month.
C6_OneEntryPerReading ==
    pc = "done" =>
        entries = ReadingsFrom(Texts(tokens_stream), 2,
                               IntOf(tokens_stream[1].text))

\* C6 amended: the same when the day exists in the column's month of 2026;
\* when it does not (the 30th of February), no entry at all.  The example
\* stream for January yields exactly its two entries.
C6_OneEntryPerReadingOfValidDay ==
    pc = "done" =>
        /\ entries =
             IF IntOf(tokens_stream[1].text) <= DaysIn(2026, month_idx + 1)
             THEN ReadingsFrom(Texts(tokens_stream), 2,
                               IntOf(tokens_stream[1].text))
             ELSE <<>>
        /\ (Texts(tokens_stream) = ExampleTokens /\ month_idx = 0)
              => entries = ExampleEntries

\* C6 witness: the example stream has been processed into its two entries
C6_Witness ==
    /\ pc = "done"
    /\ Texts(tokens_stream) = ExampleTokens
    /\ month_idx = 0
    /\ Len(entries) = 2


----------------------------------------------------------------------------
\* The deduplication of main, classify_tides and validate_data

RECURSIVE StrLess(_, _)
\* a < b on Python strings
StrLess(a, b) ==
    IF a = <<>> THEN b # <<>>
    ELSE IF b = <<>> THEN FALSE
    ELSE IF Ord(a[1]) # Ord(b[1]) THEN Ord(a[1]) < Ord(b[1])
    ELSE StrLess(Tail(a), Tail(b))

\* key = f"{entry['date']}_{entry['time']}"
KeyOf(entry) == entry.date \o <<"_">> \o entry.time

\* unique_map[key] = entry on a dict kept as its items in insertion order:
\* a key already present keeps its place and takes the new value
DictSet(items, key, value) ==
    IF \E k \in 1..Len(items) : items[k].key = key
    THEN [k \in 1..Len(items) |->
             IF items[k].key = key THEN [key |-> key, value |-> value]
             ELSE items[k]]
    ELSE Append(items, [key |-> key, value |-> value])

RECURSIVE SetAll(_, _, _, _)
\* for entry in raw[lo..hi]: unique_map[key] = entry, in list order.  The
\* range is halved, and the first half evaluated before the second is
\* entered, only to keep TLC's evaluation of long lists shallow.
SetAll(items, raw, lo, hi) ==
    IF lo > hi THEN items
    ELSE IF lo = hi THEN DictSet(items, KeyOf(raw[lo]), raw[lo])
    ELSE LET mid == (lo + hi) \div 2
             done == SetAll(items, raw, lo, mid)
         IN  IF Len(done) = 0 THEN done ELSE SetAll(done, raw, mid + 1, hi)

\* the dict after the loop over raw_data
UniqueMap(raw) == SetAll(<<>>, raw, 1, Len(raw))

\* the values listed last key first
DedupReversed(raw) ==
    LET items == UniqueMap(raw)
    IN  [k \in 1..Len(items) |-> items[Len(items) + 1 - k].value]

\* clean_data = list(unique_map.values())
Dedup(raw) ==
    LET items == UniqueMap(raw)
    IN  [k \in 1..Len(items) |-> items[k].value]

\* the sort key (x['date'], x['time'])
TideKeyLess(a, b) ==
    \/ StrLess(a.date, b.date)
    \/ a.date = b.date /\ StrLess(a.time, b.time)

\* t goes after every entry whose key is not greater (the sort is stable)
InsertTide(sorted, t) ==
    LET pos == Cardinality({k \in 1..Len(sorted) : ~TideKeyLess(t, sorted[k])})
    IN  SubSeq(sorted, 1, pos) \o <<t>> \o SubSeq(sorted, pos + 1, Len(sorted))

RECURSIVE InsertAll(_, _, _, _)
\* tides[lo..hi] inserted in list order.  The range is halved, and the
\* first half evaluated before the second is entered, only to keep TLC's
\* evaluation of long lists shallow.
InsertAll(sorted, tides, lo, hi) ==
    IF lo > hi THEN sorted
    ELSE IF lo = hi THEN InsertTide(sorted, tides[lo])
    ELSE LET mid == (lo + hi) \div 2
             done == InsertAll(sorted, tides, lo, mid)
         IN  IF Len(done) = 0 THEN done ELSE InsertAll(done, tides, mid + 1, hi)

\* tides.sort(key=lambda x: (x['date'], x['time']))
SortTides(tides) == InsertAll(<<>>, tides, 1, Len(tides))

\* the type by the height threshold alone
TideTypeByThreshold(prev_h, curr, next_h) ==
    IF curr > Threshold THEN "high" ELSE "low"

\* the if / elif chain of classify_tides
TideType(prev_h, curr, next_h) ==
    IF curr > prev_h /\ curr > next_h THEN "high"
    ELSE IF curr < prev_h /\ curr < next_h THEN "low"
    ELSE IF curr > Threshold THEN "high"
    ELSE "low"

classify_tides(tides) ==
    LET s == SortTides(tides)
    IN  [k \in 1..Len(s) |->
            LET prev_h == IF k > 1 THEN s[k - 1].height ELSE s[k].height
                next_h == IF k < Len(s) THEN s[k + 1].height ELSE s[k].height
            IN  [date |-> s[k].date, time |-> s[k].time, height |-> s[k].height,
                 type |-> TideType(prev_h, s[k].height, next_h)]]

\* the day count test against a leap year's 366
DayCountMismatchLeap(n) == n # ExpectedDays + 1

\* len(unique_days) != 365
DayCountMismatch(n) == n # ExpectedDays

\* expected_set: every date of YEAR
ExpectedSet ==
    {IsoFormat(YEAR, md[1], md[2]) :
        md \in {x \in (1..12) \X (1..31) : x[2] <= DaysIn(YEAR, x[1])}}

validate_data(tides) ==
    LET unique_days == {tides[k].date : k \in 1..Len(tides)}
        missing == ExpectedSet \ unique_days
        day_counts == [d \in unique_days |->
                          Cardinality({k \in 1..Len(tides) : tides[k].date = d})]
        suspicious_days == {d \in unique_days :
                               day_counts[d] < MinPerDay \/ day_counts[d] > MaxPerDay}
    IN  (IF DayCountMismatch(Cardinality(unique_days))
         THEN <<"Day count mismatch">>
              \o (IF missing # {} THEN <<"Missing dates">> ELSE <<>>)
         ELSE <<>>)
        \o (IF suspicious_days # {} THEN <<"Suspicious tide counts">> ELSE <<>>)


----------------------------------------------------------------------------
\* main()

\* the statements inside the try block
TrySteps == {"extract", "dedup", "classify", "validate", "write"}

\* for loc in LOCATIONS: the next location
NextLocation ==
    /\ pc = "for"
    /\ loc < Len(LOCATIONS)
    /\ loc' = loc + 1
    /\ pc' = "extract"
    /\ UNCHANGED <<colVars, raw_data, clean_data, issues, files, failed>>

\* for loc in LOCATIONS: exhausted
LoopExit ==
    /\ pc = "for"
    /\ loc >= Len(LOCATIONS)
    /\ pc' = "exit"
    /\ UNCHANGED <<colVars, mainVars>>

\* what extract_all can return: entries as extract_from_column builds them,
\* dated in YEAR, heights within [0.0, 2.5]
AllDates ==
    Flatten([m \in 1..12 |-> [d \in 1..DaysIn(YEAR, m) |-> IsoFormat(YEAR, m, d)]])

\* one reading on each of the first n days of the year
YearList(n) ==
    [k \in 1..n |-> [date |-> AllDates[k],
                     time |-> FormatTime(<<"0", "6", "1", "2">>),
                     height |-> 50 + 50 * (k % 2)]]

EntryPool ==
    { [date |-> IsoFormat(YEAR, 1, d), time |-> FormatTime(t), height |-> h] :
        d \in {5, 6},
        t \in { <<"0", "6", "1", "2">>, <<"1", "2", "0", "5">> },
        h \in {30, 50, 100} }

MainEntryPool ==
    { [date |-> IsoFormat(YEAR, 1, 5), time |-> FormatTime(<<"0", "6", "1", "2">>),
       height |-> h] : h \in {30, 100} }

MainRawPool ==
    SeqsUpTo(MainEntryPool, MaxMainRaw) \cup {YearList(ExpectedDays)}

\* raw_data = extract_all(loc['pdf'])
ExtractAll ==
    /\ pc = "extract"
    /\ raw_data' \in MainRawPool
    /\ pc' = "dedup"
    /\ UNCHANGED <<colVars, loc, clean_data, issues, files, failed>>

\* unique_map = {} ... clean_data = list(unique_map.values())
Deduplicate ==
    /\ pc = "dedup"
    /\ clean_data' = Dedup(raw_data)
    /\ pc' = "classify"
    /\ UNCHANGED <<colVars, loc, raw_data, issues, files, failed>>

\* clean_data = classify_tides(clean_data)
Classify ==
    /\ pc = "classify"
    /\ clean_data' = classify_tides(clean_data)
    /\ pc' = "validate"
    /\ UNCHANGED <<colVars, loc, raw_data, issues, files, failed>>

\* issues = validate_data(clean_data), and the report printed either way
Validate ==
    /\ pc = "validate"
    /\ issues' = validate_data(clean_data)
    /\ pc' = "write"
    /\ UNCHANGED <<colVars, loc, raw_data, clean_data, files, failed>>

\* the output dict (the timestamp of the run is left out)
Output ==
    [location |-> LOCATIONS[loc].name, year |-> YEAR,
     source |-> "Bureau of Meteorology", tides |-> clean_data]

\* the file written only when validation passed
WriteOutputIfValid ==
    /\ pc = "write"
    /\ files' = IF issues = <<>>
                THEN [files EXCEPT ![LOCATIONS[loc].output] = <<Output>>]
                ELSE files
    /\ pc' = "for"
    /\ UNCHANGED <<colVars, loc, raw_data, clean_data, issues, failed>>

\* with open(loc['output'], 'w') as f: json.dump(output, f, indent=2)
WriteOutput ==
    /\ pc = "write"
    /\ files' = [files EXCEPT ![LOCATIONS[loc].output] = <<Output>>]
    /\ pc' = "for"
    /\ UNCHANGED <<colVars, loc, raw_data, clean_data, issues, failed>>

\* a statement of the try block raises an Exception
Raise ==
    /\ pc \in TrySteps
    /\ pc' = "except"
    /\ UNCHANGED <<colVars, mainVars>>

\* the handler reporting the failure and leaving the loop
HandleExceptionAndStop ==
    /\ pc = "except"
    /\ failed' = failed \cup {LOCATIONS[loc].name}
    /\ pc' = "exit"
    /\ UNCHANGED <<colVars, loc, raw_data, clean_data, issues, files>>

\* except Exception as e: print(f"FAILED to process ...")
HandleException ==
    /\ pc = "except"
    /\ failed' = failed \cup {LOCATIONS[loc].name}
    /\ pc' = "for"
    /\ UNCHANGED <<colVars, loc, raw_data, clean_data, issues, files>>

ColumnIdle ==
    /\ words = <<>>
    /\ month_idx = 0
    /\ tokens_stream = <<>>
    /\ i = 0
    /\ current_day = None
    /\ entries = <<>>

InitMain ==
    /\ ColumnIdle
    /\ MainIdle
    /\ pc = "for"

NextMain ==
    \/ NextLocation \/ ExtractAll \/ Deduplicate \/ Classify \/ Validate
    \/ WriteOutput \/ Raise \/ HandleException \/ LoopExit

\* the pipeline driver over both locations
SpecMain == InitMain /\ [][NextMain]_vars

\* the body of the loop on one location's raw entries
RawPool ==
    SeqsUpTo(EntryPool, MaxRaw)
    \cup {YearList(n) : n \in {ExpectedDays - 1, ExpectedDays}}
    \cup {YearList(ExpectedDays) \o <<e>> : e \in MainEntryPool}

InitTides ==
    /\ ColumnIdle
    /\ loc = 1
    /\ raw_data \in RawPool
    /\ clean_data = <<>>
    /\ issues = <<>>
    /\ files = [o \in Outputs |-> <<>>]
    /\ failed = {}
    /\ pc = "dedup"

NextTides == Deduplicate \/ Classify \/ Validate

\* deduplication, classification and validation of one raw entry list
SpecTides == InitTides /\ [][NextTides]_vars

----------------------------------------------------------------------------
\* Properties of the deduplication, the classifier and the validator

\* C2: after classify_tides every type is 'high' or 'low', the entries are in
\* (date, time) order, and a middle entry strictly above both neighbours is
\* 'high', strictly below both is 'low'.
C2_ClassifiedByLocalExtrema ==
    pc \in {"validate", "write"} =>
        /\ \A k \in 1..Len(clean_data) : clean_data[k].type \in {"high", "low"}
        /\ \A k \in 1..(Len(clean_data) - 1) :
              ~TideKeyLess(clean_data[k + 1], clean_data[k])
        /\ \A k \in 2..(Len(clean_data) - 1) :
              /\ (/\ clean_data[k].height > clean_data[k - 1].height
                  /\ clean_data[k].height > clean_data[k + 1].height)
                    => clean_data[k].type = "high"
              /\ (/\ clean_data[k].height < clean_data[k - 1].height
                  /\ clean_data[k].height < clean_data[k + 1].height)
                    => clean_data[k].type = "low"

\* C2 witness: a local maximum at or below the threshold, typed 'high'
C2_Witness ==
    /\ pc = "validate"
    /\ \E k \in 2..(Len(clean_data) - 1) :
          /\ clean_data[k].height > clean_data[k - 1].height
          /\ clean_data[k].height > clean_data[k + 1].height
          /\ clean_data[k].height <= Threshold
          /\ clean_data[k].type = "high"

HasIssue(kind) == \E k \in 1..Len(issues) : issues[k] = kind

DistinctDates(tides) == {tides[k].date : k \in 1..Len(tides)}

\* C3: validate_data reports a 'Day count mismatch' issue if and only if the
\* number of distinct dates among the entries differs from 365.
C3_DayCountIssueIffNot365 ==
    pc = "write" =>
        (HasIssue("Day count mismatch")
            <=> Cardinality(DistinctDates(clean_data)) # 365)

\* C3 witness: a validated list of exactly 365 distinct dates, no such issue
C3_Witness ==
    /\ pc = "write"
    /\ Cardinality(DistinctDates(clean_data)) = 365
    /\ ~HasIssue("Day count mismatch")

\* C4: deduplicating the deduplicated list gives the same entries in the
\* same order.
C4_DedupIdempotent ==
    pc = "classify" => Dedup(clean_data) = clean_data

\* C4 witness: a deduplication that dropped a colliding entry and kept
\* several
C4_Witness ==
    /\ pc = "classify"
    /\ Len(clean_data) < Len(raw_data)
    /\ Len(clean_data) >= 2

----------------------------------------------------------------------------
\* Properties of main

Written(l) == files[LOCATIONS[l].output] # <<>>
Failed(l) == LOCATIONS[l].name \in failed
\* the location's pass through the loop body is over
Finished(l) == l < loc \/ (l = loc /\ pc \in {"for", "exit"})

\* C5: locations are processed in configured order; an exception leaves the
\* loop running: every finished location either failed or has its file
\* written, none both, no later location is touched early, and the loop
\* ends only after the last location.
C5_LoopSurvivesExceptions ==
    /\ \A l \in 1..Len(LOCATIONS) :
          /\ Finished(l) => (Failed(l) <=> ~Written(l))
          /\ ~Finished(l) => (~Failed(l) /\ ~Written(l))
    /\ pc = "exit" => \A l \in 1..Len(LOCATIONS) : Finished(l)

\* C5 witness: the first location failed and the second was written
C5_Witness ==
    /\ pc = "exit"
    /\ Failed(1)
    /\ Written(2)
    /\ ~Failed(2)

\* C7: a location processed without an exception has its file written with
\* the classified entries, whether or not validation reported issues; with
\* zero extracted entries the tides list is empty and the day-count issue is
\* among the issues.
C7_ValidationNeverBlocksOutput ==
    (pc = "for" /\ loc >= 1 /\ ~Failed(loc)) =>
        /\ files[LOCATIONS[loc].output] = <<Output>>
        /\ raw_data = <<>> =>
              /\ files[LOCATIONS[loc].output][1].tides = <<>>
              /\ HasIssue("Day count mismatch")

\* C7 witness: zero entries extracted, issues reported, file written empty
C7_Witness ==
    /\ pc = "for"
    /\ loc >= 1
    /\ ~Failed(loc)
    /\ raw_data = <<>>
    /\ issues # <<>>
    /\ Written(loc)
    /\ files[LOCATIONS[loc].output][1].tides = <<>>

=============================================================================
